---------------------------- MODULE Spec2Model ----------------------------
(***************************************************************************)
(* Model of the rStep infrared decoder (ir_rStep.cpp).                     *)
(*                                                                         *)
(* A remote sends a frame of data bits as a biphase waveform, the capture  *)
(* front end records the waveform as alternating mark/space durations in   *)
(* rawbuf (rawbuf[1] is the first mark), and the dispatcher calls          *)
(* decodeRstep on the capture, which tries decodeRstepInternal with the    *)
(* 38 kHz tick table and then with the 56 kHz tick table.                  *)
(*                                                                         *)
(* The two uint64_t accumulators of decodeRstepInternal are modelled as    *)
(* the sets of their set bit positions (a subset of 0..63).  The loops of  *)
(* Part I and Part III are given by what they have computed when they end: *)
(* the slot or pair at which they return false, and the bits ORed in       *)
(* before it.                                                              *)
(***************************************************************************)
EXTENDS Integers, Sequences, FiniteSets

VARIABLES
    frame,      \* data bits the remote sends, start bit first
    pulse,      \* ticks the front end measures for a one-chip and a two-chip run
    rawbuf,     \* results->rawbuf[1 .. rawlen-1]
    results,    \* the caller's decode_results: decode_type, address, value, bits
    ret,        \* return value of the last call
    locals,     \* locals of the last decodeRstepInternal attempt at its return
    tried,      \* tables of the attempts the last call made, in order
    call,       \* the function the dispatcher called last
    overflow,   \* how the build resolved the overflowing shifts of the last call
    seen,       \* frame types reported by successful decodeRstep calls so far
    pc          \* "frame" -> "captured" -> "done"

vars == <<frame, pulse, rawbuf, results, ret, locals, tried, call, overflow, seen, pc>>

---------------------------------------------------------------------------
(* Bounds of the model *)

MaxFrameBits == 10      \* data bits of the frames built bit by bit
MaxLonger == 4          \* times the documented payload is made four bits longer

(* Program constants *)

AccumulatorBits == 64   \* uint64_t real_biphase_bits, real_data_bits
MinDataBits == 10       \* start + customer id + address + frame type + battery

T38k == [short_min_ticks |-> 4, short_max_ticks |-> 10,
         long_min_ticks |-> 11, long_max_ticks |-> 16]

T56k == [short_min_ticks |-> 2, short_max_ticks |-> 6,
         long_min_ticks |-> 7, long_max_ticks |-> 11]

Tables == {T38k, T56k}

(* Outcomes of a shift 1ULL << n with n >= 64 (undefined in C): the count  *)
(* is taken modulo 64, or the bit is shifted out.                          *)
ShiftOverflow == {"wrap", "zero"}

(* The outcomes a call on the capture raw can meet: no shift count reaches *)
(* 64 unless the capture has more than 32 slots (a slot is at most two     *)
(* bits).                                                                  *)
Outcomes(raw) ==
    IF 2 * Len(raw) > AccumulatorBits THEN ShiftOverflow ELSE {"zero"}

(* The result structure as the dispatcher hands it in: whatever an earlier *)
(* decoder left there.                                                     *)
PriorResults == [decode_type |-> "NEC", address |-> 85, value |-> 4660, bits |-> 32]

(* Durations (50 usec ticks) the front end may measure: the edges of the   *)
(* four windows and their outer neighbours.                                *)
Ticks == {1, 2, 4, 6, 7, 10, 11, 16, 17}

---------------------------------------------------------------------------
(* The remote and the capture front end *)

(* The documented frame: STA=1 Cust=1101 Addr=01 Frametype=10 Bat=1        *)
(* Data=00011110.                                                          *)
DocumentedPayload == <<0, 0, 0, 1, 1, 1, 1, 0>>
DocumentedFrame == <<1, 1, 1, 0, 1, 0, 1, 1, 0, 1>> \o DocumentedPayload

(* Bits a longer payload continues with *)
MoreBits == {<<1, 1, 1, 0>>, <<0, 1, 0, 0>>}

(* Biphase waveform of a frame, one chip per unit of time: a 1 is sent as  *)
(* high,low and a 0 as low,high.                                           *)
Waveform(f) ==
    [k \in 1..(2 * Len(f)) |->
        IF k % 2 = 1 THEN f[(k + 1) \div 2] ELSE 1 - f[k \div 2]]

(* Lengths of the runs of equal chips from chip k on (a biphase waveform   *)
(* has runs of one or two chips only).                                     *)
RECURSIVE Runs(_, _)
Runs(c, k) ==
    IF k > Len(c) THEN <<>>
    ELSE IF k < Len(c) /\ c[k] = c[k + 1]
         THEN <<2>> \o Runs(c, k + 2)
         ELSE <<1>> \o Runs(c, k + 1)

(* One duration per run, the first run a mark; a trailing space is never   *)
(* measured.                                                               *)
Durations(r, s, l) ==
    [k \in 1..(IF Len(r) % 2 = 0 THEN Len(r) - 1 ELSE Len(r)) |->
        IF r[k] = 1 THEN s ELSE l]

(* The capture of a frame *)
Capture(f, s, l) == Durations(Runs(Waveform(f), 1), s, l)

---------------------------------------------------------------------------
(* decodeRstepInternal *)

IsShort(d, t) == d >= t.short_min_ticks /\ d <= t.short_max_ticks

(* Faulty variant: the upper bound of the long window is excluded *)
IsLongStrict(d, t) == d >= t.long_min_ticks /\ d < t.long_max_ticks

IsLong(d, t) == d >= t.long_min_ticks /\ d <= t.long_max_ticks

(* 1ULL << n, as the set of bit positions set in the result *)
Shl(n, ub) ==
    IF n < AccumulatorBits THEN {n}
    ELSE IF ub = "wrap" THEN {n % AccumulatorBits} ELSE {}

(* !! (w & (1ULL << n)) *)
TestBit(w, n, ub) == IF Shl(n, ub) \cap w # {} THEN 1 ELSE 0

Max(a, b) == IF a >= b THEN a ELSE b

(* The loop of Part I returns false at the first slot that is neither a    *)
(* short nor a long pulse; Len(raw) + 1 if it runs to its end.             *)
FirstBad(raw, t) ==
    IF \A i \in 1..Len(raw) : IsShort(raw[i], t) \/ IsLong(raw[i], t)
    THEN Len(raw) + 1
    ELSE CHOOSE i \in 1..Len(raw) :
            /\ ~ IsShort(raw[i], t) /\ ~ IsLong(raw[i], t)
            /\ \A j \in 1..(i - 1) : IsShort(raw[j], t) \/ IsLong(raw[j], t)

(* The slots before end that add two bits (the short window is tested     *)
(* first)                                                                  *)
LongSlots(raw, t, end) ==
    {j \in 1..(end - 1) : ~ IsShort(raw[j], t) /\ IsLong(raw[j], t)}

(* num_real_biphase_bits when the loop of Part I reaches slot i: one bit   *)
(* for each slot before it and one more for each long one                  *)
NumAt(long, i) == (i - 1) + Cardinality({j \in long : j < i})

(* The bits slot i ORs into real_biphase_bits: 1ULL for a MARK (uneven i), *)
(* 0ULL for a SPACE                                                        *)
SlotBits(long, ub, i) ==
    IF i % 2 = 1
    THEN IF i \in long
         THEN Shl(NumAt(long, i), ub) \cup Shl(NumAt(long, i) + 1, ub)
         ELSE Shl(NumAt(long, i), ub)
    ELSE {}

(* Part I: cut the marks and spaces into bi-phase bits, up to the slot at  *)
(* which the loop ends.  shift is the largest shift count used.            *)
PartIUpTo(ok, ub, end, long) ==
    [ok |-> ok,
     real_biphase_bits |-> UNION {SlotBits(long, ub, i) : i \in 1..(end - 1)},
     num_real_biphase_bits |-> NumAt(long, end),
     shift |-> NumAt(long, end) - 1]

PartIEndingAt(raw, t, ub, end) ==
    PartIUpTo(end > Len(raw), ub, end, LongSlots(raw, t, end))

PartI(raw, t, ub) == PartIEndingAt(raw, t, ub, FirstBad(raw, t))

(* Faulty variant: the unseen SPACE is not added *)
PartIINoPad(num) == num

(* Part II: an uneven bit count gets the unseen SPACE added. *)
PartII(num) == IF num % 2 = 1 THEN num + 1 ELSE num

(* The pairs of bi-phase bits the loop of Part III visits if it runs to    *)
(* its end: pair k is bits 2k and 2k+1, for 2k < num                       *)
Pairs(num) == 0..(((num + 1) \div 2) - 1)

(* The loop of Part III returns false at the first pair of equal bits;     *)
(* the number of pairs if it runs to its end.                              *)
FirstEqual(bits, num, ub) ==
    IF \A k \in Pairs(num) : TestBit(bits, 2 * k, ub) # TestBit(bits, 2 * k + 1, ub)
    THEN (num + 1) \div 2
    ELSE CHOOSE k \in Pairs(num) :
            /\ TestBit(bits, 2 * k, ub) = TestBit(bits, 2 * k + 1, ub)
            /\ \A j \in 0..(k - 1) :
                  TestBit(bits, 2 * j, ub) # TestBit(bits, 2 * j + 1, ub)

(* Faulty variants: the edges are read the other way round; the data bit   *)
(* lands one position too high                                             *)
EmitInverted(ndata, lower_bit, ub) ==
    IF lower_bit = 0 THEN Shl(ndata, ub) ELSE {}

EmitOffByOne(ndata, lower_bit, ub) ==
    IF lower_bit = 1 THEN Shl(ndata + 1, ub) ELSE {}

(* The bits a pair ORs into real_data_bits when num_real_data_bits is      *)
(* ndata: MARK -> SPACE ==> 1, SPACE -> MARK ==> 0                         *)
Emit(ndata, lower_bit, ub) ==
    IF lower_bit = 1 THEN Shl(ndata, ub) ELSE {}

(* Part III: one data bit per pair of bi-phase bits, up to the pair at     *)
(* which the loop ends.                                                    *)
PartIIIUpTo(bits, num, ub, end, sh) ==
    [ok |-> ~ (2 * end < num),
     real_data_bits |->
         UNION {Emit(k, TestBit(bits, 2 * k, ub), ub) : k \in 0..(end - 1)},
     num_real_data_bits |-> end,
     shift |-> IF 2 * end < num THEN Max(sh, 2 * end + 1)
               ELSE Max(sh, 2 * end - 1)]

PartIII(bits, num, ub, sh) ==
    PartIIIUpTo(bits, num, ub, FirstEqual(bits, num, ub), sh)

(* value <<= 1; value |= bit, for the data bits from up to below to *)
RECURSIVE PackBits(_, _, _, _, _)
PackBits(data, ub, from, to, acc) ==
    IF ~ (from < to) THEN acc
    ELSE PackBits(data, ub, from + 1, to, 2 * acc + TestBit(data, from, ub))

(* Faulty variant: ten data bits are not enough *)
EnoughBitsOffByOne(n) == ~ (n <= MinDataBits)

(* The length check before the result is written *)
EnoughBits(n) == ~ (n < MinDataBits)

(* Copy our decoded result to the return buffer. *)
WriteBack(data, ndata, ub) ==
    [decode_type |-> "RSTEP",
     bits |-> ndata - MinDataBits,
     value |-> PackBits(data, ub, MinDataBits, ndata, 0),
     address |-> PackBits(data, ub, 1, MinDataBits, 0)]

(* The locals of an attempt at its return; stage names the part reached. *)
LocalsAt(t, stage, bits, num, data, ndata, sh) ==
    [table |-> t, stage |-> stage,
     real_biphase_bits |-> bits, num_real_biphase_bits |-> num,
     real_data_bits |-> data, num_real_data_bits |-> ndata, shift |-> sh]

(* Faulty variant: decode_type is written before the length check *)
AfterPartIIIEarlyWrite(res, t, ub, bits, num, p3) ==
    LET at(stage) == LocalsAt(t, stage, bits, num, p3.real_data_bits,
                              p3.num_real_data_bits, p3.shift)
    IN  IF ~ p3.ok
        THEN [ret |-> FALSE, results |-> res, locals |-> at("III")]
        ELSE IF p3.num_real_data_bits < MinDataBits
        THEN [ret |-> FALSE, results |-> [res EXCEPT !.decode_type = "RSTEP"],
              locals |-> at("length")]
        ELSE [ret |-> TRUE,
              results |-> WriteBack(p3.real_data_bits, p3.num_real_data_bits, ub),
              locals |-> at("done")]

(* The attempt from Part III on, p3 being the outcome of Part III *)
AfterPartIII(res, t, ub, bits, num, p3) ==
    LET at(stage) == LocalsAt(t, stage, bits, num, p3.real_data_bits,
                              p3.num_real_data_bits, p3.shift)
    IN  IF ~ p3.ok
        THEN [ret |-> FALSE, results |-> res, locals |-> at("III")]
        ELSE IF ~ EnoughBits(p3.num_real_data_bits)
        THEN [ret |-> FALSE, results |-> res, locals |-> at("length")]
        ELSE [ret |-> TRUE,
              results |-> WriteBack(p3.real_data_bits, p3.num_real_data_bits, ub),
              locals |-> at("done")]

(* The attempt from Part II on, p1 being the outcome of Part I *)
AfterPartI(res, t, ub, p1) ==
    IF ~ p1.ok
    THEN [ret |-> FALSE, results |-> res,
          locals |-> LocalsAt(t, "I", p1.real_biphase_bits,
                              p1.num_real_biphase_bits, {}, 0, p1.shift)]
    ELSE AfterPartIII(res, t, ub, p1.real_biphase_bits,
                      PartII(p1.num_real_biphase_bits),
                      PartIII(p1.real_biphase_bits,
                              PartII(p1.num_real_biphase_bits), ub, p1.shift))

(* One decode attempt with the table t.  Returns the return value, the     *)
(* result structure after the call and the locals at the return.           *)
decodeRstepInternal(res, raw, t, ub) ==
    AfterPartI(res, t, ub, PartI(raw, t, ub))

(* The outcome of the driver when both attempts were made *)
Second(first, second) ==
    [ret |-> second.ret, results |-> second.results,
     locals |-> second.locals, tried |-> <<"38k", "56k">>,
     shift |-> Max(first.locals.shift, second.locals.shift)]

(* The driver, first being the outcome of the 38kHz attempt *)
SecondAttempt(raw, ub, first) ==
    IF first.ret
    THEN [ret |-> TRUE, results |-> first.results,
          locals |-> first.locals, tried |-> <<"38k">>,
          shift |-> first.locals.shift]
    ELSE Second(first, decodeRstepInternal(first.results, raw, T56k, ub))

(* Faulty variant: 56kHz first, then 38kHz *)
decodeRstepFastFirst(res, raw, ub) ==
    LET first == decodeRstepInternal(res, raw, T56k, ub)
        second == decodeRstepInternal(first.results, raw, T38k, ub)
    IN  IF first.ret
        THEN [ret |-> TRUE, results |-> first.results,
              locals |-> first.locals, tried |-> <<"56k">>,
              shift |-> first.locals.shift]
        ELSE [ret |-> second.ret, results |-> second.results,
              locals |-> second.locals, tried |-> <<"56k", "38k">>,
              shift |-> Max(first.locals.shift, second.locals.shift)]

(* IRrecv::decodeRstep: 38kHz first, then 56kHz. *)
decodeRstep(res, raw, ub) ==
    SecondAttempt(raw, ub, decodeRstepInternal(res, raw, T38k, ub))

(* Frame type field of the reported address: bits 2..1 *)
FrameType(address) == (address \div 2) % 4

NoLocals == LocalsAt(T38k, "none", {}, 0, {}, 0, -1)

---------------------------------------------------------------------------
(* The state machine *)

Init ==
    /\ frame = <<1>>
    /\ pulse = [short |-> 0, long |-> 0]
    /\ rawbuf = <<>>
    /\ results = PriorResults
    /\ ret = FALSE
    /\ locals = NoLocals
    /\ tried = <<>>
    /\ call = "none"
    /\ overflow = "none"
    /\ seen = {}
    /\ pc = "frame"

(* The remote appends one bit to the frame it sends. *)
AddBit ==
    /\ pc = "frame"
    /\ Len(frame) < MaxFrameBits
    /\ \E b \in {0, 1} : frame' = Append(frame, b)
    /\ UNCHANGED <<pulse, rawbuf, results, ret, locals, tried, call, overflow, seen, pc>>

(* The remote sends the documented frame. *)
SendDocumented ==
    /\ pc = "frame"
    /\ frame = <<1>>
    /\ frame' = DocumentedFrame
    /\ UNCHANGED <<pulse, rawbuf, results, ret, locals, tried, call, overflow, seen, pc>>

(* The remote sends the documented frame with a longer payload. *)
Longer ==
    /\ pc = "frame"
    /\ Len(frame) >= Len(DocumentedFrame)
    /\ Len(frame) < Len(DocumentedFrame) + MaxLonger * 4
    /\ \E more \in MoreBits : frame' = frame \o more
    /\ UNCHANGED <<pulse, rawbuf, results, ret, locals, tried, call, overflow, seen, pc>>

(* The front end captures the frame sent so far. *)
Synthesize ==
    /\ pc = "frame"
    /\ \E s \in Ticks, l \in Ticks :
          /\ s < l
          /\ pulse' = [short |-> s, long |-> l]
          /\ rawbuf' = Capture(frame, s, l)
    /\ pc' = "captured"
    /\ UNCHANGED <<frame, results, ret, locals, tried, call, overflow, seen>>

(* One call of decodeRstepInternal with one table. *)
Attempt ==
    /\ pc = "captured"
    /\ \E t \in Tables, u \in Outcomes(rawbuf) :
          \E r \in {decodeRstepInternal(results, rawbuf, t, u)} :
          /\ results' = r.results
          /\ ret' = r.ret
          /\ locals' = r.locals
          /\ tried' = <<IF t = T38k THEN "38k" ELSE "56k">>
          /\ overflow' = IF r.locals.shift >= AccumulatorBits THEN u ELSE "none"
    /\ call' = "decodeRstepInternal"
    /\ pc' = "done"
    /\ UNCHANGED <<frame, pulse, rawbuf, seen>>

(* One call of decodeRstep. *)
Decode ==
    /\ pc = "captured"
    /\ \E u \in Outcomes(rawbuf) :
          \E r \in {decodeRstep(results, rawbuf, u)} :
          /\ results' = r.results
          /\ ret' = r.ret
          /\ locals' = r.locals
          /\ tried' = r.tried
          /\ overflow' = IF r.shift >= AccumulatorBits THEN u ELSE "none"
          /\ seen' = IF r.ret THEN seen \cup {FrameType(r.results.address)}
                     ELSE seen
    /\ call' = "decodeRstep"
    /\ pc' = "done"
    /\ UNCHANGED <<frame, pulse, rawbuf>>

Next == AddBit \/ SendDocumented \/ Longer \/ Synthesize \/ Attempt \/ Decode

Spec == Init /\ [][Next]_vars

(* The dispatcher resumes reception: the remote of the documented frame    *)
(* (same customer id and address) sends its next frame, and the next call  *)
(* gets a result structure as at the start.                                *)
KnownRemote == SubSeq(DocumentedFrame, 1, 7)

Resume ==
    /\ pc = "done"
    /\ frame' = KnownRemote
    /\ pulse' = [short |-> 0, long |-> 0]
    /\ rawbuf' = <<>>
    /\ results' = PriorResults
    /\ ret' = FALSE
    /\ locals' = NoLocals
    /\ tried' = <<>>
    /\ call' = "none"
    /\ overflow' = "none"
    /\ pc' = "frame"
    /\ UNCHANGED seen

InitTypes ==
    /\ frame = KnownRemote
    /\ pulse = [short |-> 0, long |-> 0]
    /\ rawbuf = <<>>
    /\ results = PriorResults
    /\ ret = FALSE
    /\ locals = NoLocals
    /\ tried = <<>>
    /\ call = "none"
    /\ overflow = "none"
    /\ seen = {}
    /\ pc = "frame"

NextTypes == AddBit \/ Synthesize \/ Decode \/ Resume

SpecTypes == InitTypes /\ [][NextTypes]_vars

---------------------------------------------------------------------------
(* Properties *)

(* Value of a bit sequence, most significant bit first *)
RECURSIVE BitsToNat(_)
BitsToNat(b) ==
    IF b = <<>> THEN 0
    ELSE 2 * BitsToNat(SubSeq(b, 1, Len(b) - 1)) + b[Len(b)]

(* The header and the payload the remote sent *)
SentAddress == BitsToNat(SubSeq(frame, 2, MinDataBits))
SentValue == BitsToNat(SubSeq(frame, MinDataBits + 1, Len(frame)))
SentBits == Len(frame) - MinDataBits

(* The capture was made with durations inside the windows of table t *)
InWindows(t) ==
    /\ pulse.short \in t.short_min_ticks..t.short_max_ticks
    /\ pulse.long \in t.long_min_ticks..t.long_max_ticks

(* The largest payload whose chips fit the accumulator *)
MaxRoundTripPayload == (AccumulatorBits \div 2) - MinDataBits

(* The frame is a whole rStep frame with a payload of 0..22 bits *)
WholeFrame ==
    /\ Len(frame) >= MinDataBits
    /\ SentBits <= MaxRoundTripPayload

(* The outcome of the overflowing shifts of the last call ("zero" when     *)
(* there were none: both outcomes agree then)                              *)
UB == IF overflow = "none" THEN "zero" ELSE overflow

ReportsSentFrame ==
    /\ ret
    /\ results.address = SentAddress
    /\ results.value = SentValue
    /\ results.bits = SentBits

(* C1: a whole frame captured with durations inside the windows of a       *)
(* table is decoded by decodeRstepInternal with that table to the header   *)
(* and payload that were sent; the documented frame decodes to address     *)
(* 0x1AD, value 0x1E, bits 8.                                              *)
C1_RoundTrip ==
    (pc = "done" /\ WholeFrame /\ InWindows(locals.table))
        => /\ ReportsSentFrame
           /\ frame = DocumentedFrame
                => /\ results.address = 429
                   /\ results.value = 30
                   /\ results.bits = 8

C1_Witness ==
    /\ pc = "done"
    /\ call = "decodeRstepInternal"
    /\ frame = DocumentedFrame
    /\ locals.table = T56k
    /\ InWindows(T56k)
    /\ ret
    /\ results.address = 429
    /\ results.value = 30
    /\ results.bits = 8

(* C2: decodeRstep reports the frame that was sent for every whole frame   *)
(* captured with the 38 kHz or with the 56 kHz durations.                  *)
C2_ClockAgnostic ==
    (/\ pc = "done"
     /\ call = "decodeRstep"
     /\ WholeFrame
     /\ InWindows(T38k) \/ InWindows(T56k))
        => ReportsSentFrame

(* Bit n of an accumulator as the attempt read it *)
Bit(w, n) == TestBit(w, n, UB)

EmittedPairs == 0..(locals.num_real_data_bits - 1)

(* C3, as claimed: every data bit the reconstructor emitted is 1 when its  *)
(* chip pair is low then high and 0 when it is high then low.              *)
C3_LowHighIsOne ==
    pc = "done" =>
        \A k \in EmittedPairs :
            /\ Bit(locals.real_biphase_bits, 2 * k)
                  # Bit(locals.real_biphase_bits, 2 * k + 1)
            /\ Bit(locals.real_data_bits, k) = 1
                  <=> /\ Bit(locals.real_biphase_bits, 2 * k) = 0
                      /\ Bit(locals.real_biphase_bits, 2 * k + 1) = 1

(* C3, amended: every data bit the reconstructor emitted comes from a pair *)
(* of different chips, in pair order, and is 1 when the pair is high then  *)
(* low (mark, space) and 0 when it is low then high (space, mark).         *)
C3_HighLowIsOne ==
    pc = "done" =>
        \A k \in EmittedPairs :
            /\ Bit(locals.real_biphase_bits, 2 * k)
                  # Bit(locals.real_biphase_bits, 2 * k + 1)
            /\ Bit(locals.real_data_bits, k) = 1
                  <=> /\ Bit(locals.real_biphase_bits, 2 * k) = 1
                      /\ Bit(locals.real_biphase_bits, 2 * k + 1) = 0

C3_Witness ==
    /\ pc = "done"
    /\ ret
    /\ \E k \in EmittedPairs : Bit(locals.real_data_bits, k) = 1
                               /\ Bit(locals.real_biphase_bits, 2 * k) = 1
    /\ \E k \in EmittedPairs : Bit(locals.real_data_bits, k) = 0
                               /\ Bit(locals.real_biphase_bits, 2 * k + 1) = 1

(* C4: a call that returns false leaves decode_type, address, value and    *)
(* bits of the result structure and the raw buffer as they were before the *)
(* call; and when the 38kHz attempt fails and the 56kHz attempt succeeds,  *)
(* the result is what the 56kHz attempt alone writes.                      *)
C4_FailureNoEffect ==
    [][(pc = "captured" /\ pc' = "done")
          => /\ ~ ret' => (results' = results /\ rawbuf' = rawbuf)
             /\ (call' = "decodeRstep" /\ ret' /\ Len(tried') = 2)
                   => results' = decodeRstepInternal(results, rawbuf, T56k,
                                     IF overflow' = "none" THEN "zero"
                                     ELSE overflow').results]_vars

C4_Witness ==
    /\ pc = "done"
    /\ call = "decodeRstep"
    /\ ~ ret
    /\ tried = <<"38k", "56k">>
    /\ locals.stage = "length"
    /\ results = PriorResults
    /\ rawbuf = Capture(frame, pulse.short, pulse.long)

(* The two attempts on the capture, each from the result structure as the  *)
(* dispatcher handed it in                                                 *)
Slow == decodeRstepInternal(PriorResults, rawbuf, T38k, UB)
Fast == decodeRstepInternal(PriorResults, rawbuf, T56k, UB)

Outcome == [ret |-> ret, results |-> results]
OutcomeOf(a) == [ret |-> a.ret, results |-> a.results]
Failure == [ret |-> FALSE, results |-> PriorResults]

(* C5, as claimed: the outcome of decodeRstep is that of the 56 kHz        *)
(* attempt whenever it succeeds, else that of the 38 kHz attempt, else     *)
(* failure.                                                                *)
C5_FastFirst ==
    (pc = "done" /\ call = "decodeRstep")
        => \A slow \in {Slow}, fast \in {Fast} :
              Outcome = IF fast.ret THEN OutcomeOf(fast)
                        ELSE IF slow.ret THEN OutcomeOf(slow) ELSE Failure

(* C5, amended: decodeRstep runs the 38 kHz attempt first and the 56 kHz   *)
(* attempt only if that failed: its outcome is that of the 38 kHz attempt  *)
(* whenever it succeeds, else that of the 56 kHz attempt run from scratch, *)
(* else failure.                                                           *)
C5_SlowFirst ==
    (pc = "done" /\ call = "decodeRstep")
        => \A slow \in {Slow}, fast \in {Fast} :
              /\ Outcome = IF slow.ret THEN OutcomeOf(slow)
                           ELSE IF fast.ret THEN OutcomeOf(fast) ELSE Failure
              /\ tried = IF slow.ret THEN <<"38k">> ELSE <<"38k", "56k">>

C5_Witness ==
    /\ pc = "done"
    /\ call = "decodeRstep"
    /\ tried = <<"38k">>
    /\ Fast.ret
    /\ Fast.results # results
    /\ Outcome = OutcomeOf(Slow)

FrameTypes == 0..3

(* C6: one of the four frame types is never reported by a successful       *)
(* decodeRstep.                                                            *)
C6_ErrorFramesDropped == seen # FrameTypes

(* Classification and reconstruction of the last attempt ran to their end *)
Reconstructed == pc = "done" /\ locals.stage \in {"length", "done"}

(* Value of data bits 1..9, most significant first *)
HeaderOf(data) ==
    BitsToNat([i \in 1..(MinDataBits - 1) |-> IF i \in data THEN 1 ELSE 0])

(* C7: an attempt that reconstructs n data bits fails when n <= 9 and      *)
(* succeeds with bits = n - 10 when n >= 10; with exactly 10 data bits it  *)
(* succeeds with bits = 0, value = 0 and the address of data bits 1..9.    *)
C7_MinimumLength ==
    Reconstructed =>
        /\ locals.num_real_data_bits <= 9 => ~ ret
        /\ locals.num_real_data_bits >= 10
              => (ret /\ results.bits = locals.num_real_data_bits - 10)
        /\ locals.num_real_data_bits = 10
              => /\ results.bits = 0
                 /\ results.value = 0
                 /\ results.address = HeaderOf(locals.real_data_bits)

C7_Witness ==
    /\ Reconstructed
    /\ locals.num_real_data_bits = 10
    /\ ret
    /\ results.bits = 0
    /\ results.value = 0
    /\ results.address = SentAddress

(* The capture ends in a mark and its chip stream has odd length *)
EndsInLoneMark ==
    /\ Len(rawbuf) % 2 = 1
    /\ locals.stage # "I"
    /\ \E p1 \in {PartI(rawbuf, locals.table, UB)} :
          p1.num_real_biphase_bits % 2 = 1

SameWithSpace(d) ==
    OutcomeOf(decodeRstepInternal(PriorResults, Append(rawbuf, d),
                                  locals.table, UB)) = Outcome

(* C8: after Part II the chip count is even and an attempt that            *)
(* reconstructs all its pairs has chip count / 2 data bits; a capture that *)
(* ends in a mark with an odd chip count decodes exactly as the same       *)
(* capture with one more short space at its end.                           *)
C8_Padding ==
    pc = "done" =>
        /\ locals.stage # "I" => locals.num_real_biphase_bits % 2 = 0
        /\ Reconstructed
              => 2 * locals.num_real_data_bits = locals.num_real_biphase_bits
        /\ EndsInLoneMark
              => \A d \in Ticks : IsShort(d, locals.table) => SameWithSpace(d)

C8_Witness ==
    /\ pc = "done"
    /\ ret
    /\ EndsInLoneMark
    /\ locals.num_real_biphase_bits % 2 = 0
    /\ \E d \in Ticks : IsShort(d, locals.table) /\ SameWithSpace(d)

(* C9: in every successful decode the first chip is high and the second    *)
(* low, and data bit 0, the start bit, is 1.                               *)
C9_StartBitForced ==
    (pc = "done" /\ ret)
        => /\ Bit(locals.real_biphase_bits, 0) = 1
           /\ Bit(locals.real_biphase_bits, 1) = 0
           /\ Bit(locals.real_data_bits, 0) = 1

C9_Witness ==
    /\ pc = "done"
    /\ call = "decodeRstep"
    /\ ret
    /\ locals.table = T56k
    /\ Bit(locals.real_biphase_bits, 0) = 1
    /\ Bit(locals.real_data_bits, 0) = 1

(* C10: every shift count used on the two 64-bit accumulators during an    *)
(* attempt is below 64.                                                    *)
C10_NoOverrun == pc = "done" => locals.shift < AccumulatorBits

=============================================================================
